---- MODULE Spec2Model ----
(***************************************************************************)
(* ammolite: PyMOLObject (src/src/ammolite/object.py), a handle on one     *)
(* named object of a PyMOL session.  The session is the external engine;  *)
(* the handle validates it, turns boolean masks and selection strings     *)
(* into object-scoped selection expressions, and converts structures to   *)
(* and from the engine's per-atom records.                                 *)
(*                                                                         *)
(* A selection expression is a Python string in the code.  Here it is the *)
(* sequence of the engine's tokens of that string, so that concatenating  *)
(* strings is concatenating token sequences and the engine's reading of   *)
(* the result (Select) is a parse that can fail or regroup.               *)
(***************************************************************************)
EXTENDS Integers, Sequences, FiniteSets, TLC

VARIABLES objects, handles, object_counter, color_counter, colors, last

vars == <<objects, handles, object_counter, color_counter, colors, last>>

(***************************************************************************)
(* Bounds                                                                  *)
(***************************************************************************)
MaxAtoms == 3
MaxHandles == 2
MaxCounter == 1
MaxTokens == 5
MaxLive == 2

(***************************************************************************)
(* Selection-expression tokens                                             *)
(***************************************************************************)
Tok(t, name, lo, hi) == [t |-> t, name |-> name, lo |-> lo, hi |-> hi]
TModel(name) == Tok("model", name, 0, 0)
TIndex(lo, hi) == Tok("index", "", lo, hi)
TAnd == Tok("and", "", 0, 0)
TOr == Tok("or", "", 0, 0)
TLP == Tok("(", "", 0, 0)
TRP == Tok(")", "", 0, 0)
TAll == Tok("all", "", 0, 0)
TNone == Tok("none", "", 0, 0)

(***************************************************************************)
(* The engine session: objects maps each object name present in the       *)
(* session to [atoms, states]; atoms is the per-atom record list, states  *)
(* the coordinate sets, state k covering the first Len(states[k]) atoms.  *)
(***************************************************************************)
AtomsOf(objs, n) == IF n \in DOMAIN objs THEN {<<n, i>> : i \in 1..Len(objs[n].atoms)} ELSE {}

Universe(objs) == UNION {AtomsOf(objs, n) : n \in DOMAIN objs}

Malformed == [ok |-> FALSE, set |-> {}, pos |-> 0]

Parsed(set, pos) == [ok |-> TRUE, set |-> set, pos |-> pos]

RECURSIVE ParseOr(_, _, _)
RECURSIVE ParseOrRest(_, _, _, _)
RECURSIVE OrStep(_, _, _, _)
RECURSIVE ParseAnd(_, _, _)
RECURSIVE ParseAndRest(_, _, _, _)
RECURSIVE AndStep(_, _, _, _)
RECURSIVE ParsePrim(_, _, _)

\* A parenthesized expression r must be followed by ")".
CloseParen(toks, r) ==
    IF r.ok /\ r.pos <= Len(toks) /\ toks[r.pos].t = ")" THEN Parsed(r.set, r.pos + 1) ELSE Malformed

IndexAtoms(objs, lo, hi) == {a \in Universe(objs) : lo <= a[2] /\ a[2] <= hi}

ParsePrim(toks, p, objs) ==
    IF p > Len(toks) THEN Malformed
    ELSE CASE toks[p].t = "model" -> Parsed(AtomsOf(objs, toks[p].name), p + 1)
           [] toks[p].t = "index" -> Parsed(IndexAtoms(objs, toks[p].lo, toks[p].hi), p + 1)
           [] toks[p].t = "all" -> Parsed(Universe(objs), p + 1)
           [] toks[p].t = "none" -> Parsed({}, p + 1)
           [] toks[p].t = "(" -> CloseParen(toks, ParseOr(toks, p + 1, objs))
           [] OTHER -> Malformed

\* acc "and" the operand r, then the rest of the conjunction.
AndStep(toks, r, acc, objs) ==
    IF r.ok THEN ParseAndRest(toks, r.pos, acc \cap r.set, objs) ELSE Malformed

ParseAndRest(toks, p, acc, objs) ==
    IF p <= Len(toks) /\ toks[p].t = "and"
    THEN AndStep(toks, ParsePrim(toks, p + 1, objs), acc, objs)
    ELSE Parsed(acc, p)

ParseAnd(toks, p, objs) == AndStep(toks, ParsePrim(toks, p, objs), Universe(objs), objs)

\* acc "or" the operand r, then the rest of the disjunction.
OrStep(toks, r, acc, objs) ==
    IF r.ok THEN ParseOrRest(toks, r.pos, acc \cup r.set, objs) ELSE Malformed

ParseOrRest(toks, p, acc, objs) ==
    IF p <= Len(toks) /\ toks[p].t = "or"
    THEN OrStep(toks, ParseAnd(toks, p + 1, objs), acc, objs)
    ELSE Parsed(acc, p)

ParseOr(toks, p, objs) == OrStep(toks, ParseAnd(toks, p, objs), {}, objs)

\* The whole expression must have been read.
Complete(toks, r) ==
    IF r.ok /\ r.pos = Len(toks) + 1 THEN [ok |-> TRUE, set |-> r.set] ELSE [ok |-> FALSE, set |-> {}]

\* The engine's reading of a selection expression: the set of (object,
\* 1-based index) atoms it selects, or a malformed-selection error.  "and"
\* binds tighter than "or"; an empty pair of parentheses is malformed.
Select(toks, objs) == Complete(toks, ParseOr(toks, 1, objs))

get_object_list(objs) == DOMAIN objs

count_atoms(objs, sel) == Cardinality(Select(sel, objs).set)

count_states(objs, name) == IF name \in DOMAIN objs THEN Len(objs[name].states) ELSE 0

\* cmd.delete: removes the named object; silent when the name is absent.
delete(objs, name) == [n \in (DOMAIN objs) \ {name} |-> objs[n]]

(***************************************************************************)
(* Engine calls issued by an operation, in order.                          *)
(***************************************************************************)
\* Python's None for an optional integer or name argument.
None == -1
NoName == ""

\* name, sel and state are the name, selection and state arguments passed;
\* sel2, value and mode are further arguments, None or empty when not passed.
Call(cmd, name, sel, state) ==
    [name |-> name, sel |-> sel, cmd |-> cmd, state |-> state, sel2 |-> <<>>, value |-> None, mode |-> None]

(***************************************************************************)
(* Handles                                                                 *)
(***************************************************************************)
\* No structure (the operation returned none).
NoStructure == [kind |-> "none", ann |-> [c \in {} |-> <<>>], coord |-> <<>>]

\* A handle: _name, _atom_count, delete, and whether it is still referenced.
\* origin and fresh are history: the structure from_structure() built the
\* handle from, and whether its name was new to the session then.
Handle(name, atom_count, del) ==
    [name |-> name, delete |-> del, atom_count |-> atom_count, alive |-> TRUE,
     origin |-> NoStructure, fresh |-> FALSE]

exists(self, objs) == self.name \in get_object_list(objs)

\* Result of an operation: the exception it raises ("ok" for none), the
\* selection expression it returns or passes on, the structure it returns,
\* and the engine calls made.
Res(result, expr, calls) == [value |-> NoStructure, result |-> result, expr |-> expr, calls |-> calls]

ResV(result, value, calls) == [value |-> value, result |-> result, expr |-> <<>>, calls |-> calls]

ExistenceCall == Call("get_object_list", "", <<>>, 0)
CountCall(name) == Call("count_atoms", "", <<TModel(name)>>, 0)

_check_existence(self, objs) ==
    IF exists(self, objs)
    THEN Res("ok", <<>>, <<ExistenceCall>>)
    ELSE Res("NonexistentObjectError", <<>>, <<ExistenceCall>>)

\* The atom count check of validate(), new_atom_count being the live count.
CheckCount(self, new_atom_count) ==
    IF new_atom_count # self.atom_count
    THEN Res("ModifiedObjectError", <<>>, <<ExistenceCall, CountCall(self.name)>>)
    ELSE Res("ok", <<>>, <<ExistenceCall, CountCall(self.name)>>)

validate(self, objs) ==
    IF ~exists(self, objs) THEN _check_existence(self, objs)
    ELSE CheckCount(self, count_atoms(objs, <<TModel(self.name)>>))

\* np.where(np.diff(mask))[0]: the positions without the shift by one.
Changes_unshifted(mask) ==
    SelectSeq([i \in 1..(Len(mask) - 1) |-> i - 1], LAMBDA j : mask[j + 2] # mask[j + 1])

\* np.where(np.diff(mask))[0] + 1: the 0-based positions whose value
\* differs from the predecessor's (mask is 1-based here: position i is mask[i+1]).
Changes(mask) ==
    SelectSeq([i \in 1..(Len(mask) - 1) |-> i], LAMBDA i : mask[i + 1] # mask[i])

Boundaries(mask) ==
    LET c0 == Changes(mask)
        c1 == IF mask[1] THEN <<0>> \o c0 ELSE c0
    IN IF mask[Len(mask)] THEN c1 \o <<Len(mask)>> ELSE c1

\* np.reshape(changes, (-1, 2))
Intervals(changes) == [k \in 1..(Len(changes) \div 2) |-> <<changes[2 * k - 1], changes[2 * k]>>]

RECURSIVE JoinOr(_)
\* " or ".join(...)
JoinOr(clauses) ==
    IF Len(clauses) = 0 THEN <<>>
    ELSE IF Len(clauses) = 1 THEN <<clauses[1]>>
    ELSE <<clauses[1], TOr>> \o JoinOr(Tail(clauses))

\* The range clause with the 0-based start of the interval.
IndexClause_zero_based(iv) == TIndex(iv[1], iv[2])

\* f"index {start+1}-{stop}"
IndexClause(iv) == TIndex(iv[1] + 1, iv[2])

\* The exception raised for a mask of the wrong length: the message of the
\* IndexError reads the name atom_count, which is not defined in where().
LengthError == "NameError"

\* The expression where() builds of the boundary list.
WhereExpr(self, changes) ==
    IF Len(changes) % 2 # 0 THEN Res("ValueError", <<>>, <<>>)
    ELSE Res("ok",
             <<TModel(self.name), TAnd, TLP>>
               \o JoinOr([k \in 1..(Len(changes) \div 2) |-> IndexClause(Intervals(changes)[k])])
               \o <<TRP>>,
             <<>>)

\* The body of where(), after validation.  For an empty mask of the right
\* length mask[0] is out of bounds.
where_body(self, mask) ==
    IF Len(mask) # self.atom_count THEN Res(LengthError, <<>>, <<>>)
    ELSE IF Len(mask) = 0 THEN Res("IndexError", <<>>, <<>>)
    ELSE WhereExpr(self, Boundaries(mask))

\* v: the outcome of the validation, b: that of the body.
Validated(v, b) == IF v.result # "ok" THEN v ELSE Res(b.result, b.expr, v.calls)

where(self, mask, objs) == Validated(validate(self, objs), where_body(self, mask))

\* A selection argument: None, a selection string, or a boolean mask.
SelNone == [toks |-> <<>>, kind |-> "none", mask |-> <<>>]
SelStr(toks) == [toks |-> toks, kind |-> "str", mask |-> <<>>]
SelMask(mask) == [toks |-> <<>>, kind |-> "mask", mask |-> mask]

_into_selection(self, selection, objs) ==
    IF selection.kind = "none" THEN Res("ok", <<TModel(self.name)>>, <<>>)
    ELSE IF selection.kind = "str"
    THEN Res("ok", <<TModel(self.name), TAnd, TLP>> \o selection.toks \o <<TRP>>, <<>>)
    ELSE where(self, selection.mask, objs)

\* A validated command cmd given the selection outcome s.
Command(cmd, v, s) ==
    IF v.result # "ok" THEN v
    ELSE IF s.result # "ok" THEN Res(s.result, <<>>, v.calls \o s.calls)
    ELSE Res("ok", s.expr, v.calls \o s.calls \o <<Call(cmd, "", s.expr, 0)>>)

\* show(representation, selection), one of the selection-aware wrappers.
show(self, selection, objs) ==
    Command("show", validate(self, objs), _into_selection(self, selection, objs))

\* state = 0 if state is None else state
StateArg(state) == IF state = None THEN 0 ELSE state

\* selection2 = selection1 if selection2 is None else selection2
SecondSelection(selection1, selection2) == IF selection2.kind = "none" THEN selection1 ELSE selection2

\* A validated wrapper that issues the one engine call c with the selection
\* s put in; v is the outcome of the validation.
Issue(v, s, c) ==
    IF v.result # "ok" THEN v
    ELSE IF s.result # "ok" THEN Res(s.result, <<>>, v.calls \o s.calls)
    ELSE Res("ok", s.expr, v.calls \o s.calls \o <<[c EXCEPT !.sel = s.expr]>>)

\* The same with two selections, evaluated in the order of the arguments.
Issue2(v, s1, s2, c) ==
    IF v.result # "ok" THEN v
    ELSE IF s1.result # "ok" THEN Res(s1.result, <<>>, v.calls \o s1.calls)
    ELSE IF s2.result # "ok" THEN Res(s2.result, <<>>, v.calls \o s1.calls \o s2.calls)
    ELSE Res("ok", s1.expr, v.calls \o s1.calls \o s2.calls \o <<[c EXCEPT !.sel = s1.expr, !.sel2 = s2.expr]>>)

\* center(selection, state, origin): cmd.center(sel, state, int(origin))
center(self, selection, state, orig, objs) ==
    Issue(validate(self, objs), _into_selection(self, selection, objs),
          [Call("center", "", <<>>, StateArg(state)) EXCEPT !.value = IF orig THEN 1 ELSE 0])

\* clip(mode, distance, selection, state): cmd.clip(mode, distance, sel, state)
clip(self, mode, dist, selection, state, objs) ==
    Issue(validate(self, objs), _into_selection(self, selection, objs),
          [Call("clip", mode, <<>>, StateArg(state)) EXCEPT !.value = dist])

\* distance(name, selection1, selection2, mode): cmd.distance(sel1)
distance(self, name, selection1, selection2, mode, objs) ==
    Issue(validate(self, objs), _into_selection(self, selection1, objs), Call("distance", "", <<>>, 0))

\* dss(selection, state): cmd.dss(sel, state)
dss(self, selection, state, objs) ==
    Issue(validate(self, objs), _into_selection(self, selection, objs), Call("dss", "", <<>>, StateArg(state)))

\* orient(selection, state): cmd.orient(sel, state)
orient(self, selection, state, objs) ==
    Issue(validate(self, objs), _into_selection(self, selection, objs), Call("orient", "", <<>>, StateArg(state)))

\* origin(selection, state): cmd.origin(selection=sel, state=state)
origin(self, selection, state, objs) ==
    Issue(validate(self, objs), _into_selection(self, selection, objs), Call("origin", "", <<>>, StateArg(state)))

\* set(name, value, selection, state): cmd.set(name, value, sel, state)
set(self, name, value, selection, state, objs) ==
    Issue(validate(self, objs), _into_selection(self, selection, objs),
          [Call("set", name, <<>>, StateArg(state)) EXCEPT !.value = value])

\* set_bond(value, selection1, selection2, state): the first argument of
\* the engine call reads the name `name`, which set_bond() does not have,
\* before any of the selections is evaluated.
set_bond(self, value, selection1, selection2, state, objs) ==
    Validated(validate(self, objs), Res("NameError", <<>>, <<>>))

\* show_as(representation, selection): cmd.show(representation, sel)
show_as(self, representation, selection, objs) ==
    Issue(validate(self, objs), _into_selection(self, selection, objs), Call("show", representation, <<>>, 0))

\* unset(name, selection, state): cmd.unset(name, sel, state)
unset(self, name, selection, state, objs) ==
    Issue(validate(self, objs), _into_selection(self, selection, objs), Call("unset", name, <<>>, StateArg(state)))

\* unset_bond(name, selection1, selection2, state): cmd.unset_bond(name, sel1, sel2, state)
unset_bond(self, name, selection1, selection2, state, objs) ==
    Issue2(validate(self, objs), _into_selection(self, selection1, objs),
           _into_selection(self, SecondSelection(selection1, selection2), objs),
           Call("unset_bond", name, <<>>, StateArg(state)))

\* zoom(selection, buffer, state, complete): cmd.zoom(sel, buffer, state, int(complete))
zoom(self, selection, buffer, state, complete, objs) ==
    Issue(validate(self, objs), _into_selection(self, selection, objs),
          [Call("zoom", "", <<>>, StateArg(state)) EXCEPT !.value = buffer, !.mode = IF complete THEN 1 ELSE 0])

\* A color argument: the name of a color, or an RGB tuple.
ColStr(name) == [name |-> name, kind |-> "str", rgb |-> <<>>]
ColRGB(rgb) == [name |-> NoName, kind |-> "rgb", rgb |-> rgb]
NoColor == ColStr(NoName)

ColorName(k) == "ammolite_color_" \o ToString(k)

\* The first statement of color(): the name of the color, and for an RGB
\* tuple the registry with the new named color and the counter after it.
Registered(color, cols, counter) ==
    IF color.kind # "str"
    THEN [colors |-> cols \cup {ColorName(counter)}, name |-> ColorName(counter), result |-> "ok",
          calls |-> <<Call("set_color", ColorName(counter), <<>>, 0)>>, counter |-> counter + 1]
    ELSE IF color.name \notin cols
    THEN [colors |-> cols, name |-> color.name, result |-> "ValueError",
          calls |-> <<Call("get_color_indices", "", <<>>, 0)>>, counter |-> counter]
    ELSE [colors |-> cols, name |-> color.name, result |-> "ok",
          calls |-> <<Call("get_color_indices", "", <<>>, 0)>>, counter |-> counter]

\* color() given the outcomes v of the validation, r of the first statement
\* and s of the selection, which is evaluated after r.
ColorOutcome(v, r, s, cols, counter) ==
    IF v.result # "ok" THEN [colors |-> cols, counter |-> counter, res |-> v]
    ELSE IF r.result # "ok"
    THEN [colors |-> cols, counter |-> counter, res |-> Res(r.result, <<>>, v.calls \o r.calls)]
    ELSE IF s.result # "ok"
    THEN [colors |-> r.colors, counter |-> r.counter, res |-> Res(s.result, <<>>, v.calls \o r.calls \o s.calls)]
    ELSE [colors |-> r.colors, counter |-> r.counter,
          res |-> Res("ok", s.expr, v.calls \o r.calls \o s.calls \o <<Call("color", r.name, s.expr, 0)>>)]

\* color(color, selection): the outcome, the registry and the counter afterwards.
color(self, col, selection, objs, cols, counter) ==
    ColorOutcome(validate(self, objs), Registered(col, cols, counter),
                 _into_selection(self, selection, objs), cols, counter)

(***************************************************************************)
(* Structures (biotite AtomArray / AtomArrayStack): ann maps each          *)
(* annotation column present to its values, coord is the sequence of      *)
(* coordinate sets (one for an array, stack_depth many for a stack).      *)
(***************************************************************************)
Mandatory == {"chain_id", "res_id", "ins_code", "res_name", "hetero", "atom_name", "element"}
Optional == {"b_factor", "occupancy", "charge", "altloc_id"}

array_length(atoms) == Len(atoms.ann["chain_id"])
stack_depth(atoms) == Len(atoms.coord)
Has(atoms, col) == col \in DOMAIN atoms.ann

\* atoms[0] of a stack: the array of its first state.
FirstModel(atoms) == [kind |-> "array", ann |-> atoms.ann, coord |-> <<atoms.coord[1]>>]

\* convert_to_chempy_model: one engine record per atom, optional fields
\* from their columns when present and the defaults otherwise.
convert_to_chempy_model(atoms) ==
    [i \in 1..array_length(atoms) |->
       [name |-> atoms.ann["atom_name"][i],
        coord |-> atoms.coord[1][i],
        b |-> IF Has(atoms, "b_factor") THEN atoms.ann["b_factor"][i] ELSE 0,
        symbol |-> atoms.ann["element"][i],
        resn |-> atoms.ann["res_name"][i],
        ins_code |-> atoms.ann["ins_code"][i],
        resi_number |-> atoms.ann["res_id"][i],
        chain |-> atoms.ann["chain_id"][i],
        hetatm |-> atoms.ann["hetero"][i],
        q |-> IF Has(atoms, "occupancy") THEN atoms.ann["occupancy"][i] ELSE 1,
        formal_charge |-> IF Has(atoms, "charge") THEN atoms.ann["charge"][i] ELSE 0,
        alt |-> IF Has(atoms, "altloc_id") THEN atoms.ann["altloc_id"][i] ELSE ""]]

\* convert_to_atom_array: the columns of the record list, with b_factor,
\* occupancy, charge and altloc_id always present.
convert_to_atom_array(model) ==
    [kind |-> "array",
     ann |-> [c \in Mandatory \cup Optional |->
               CASE c = "chain_id" -> [i \in 1..Len(model) |-> model[i].chain]
                 [] c = "res_id" -> [i \in 1..Len(model) |-> model[i].resi_number]
                 [] c = "ins_code" -> [i \in 1..Len(model) |-> model[i].ins_code]
                 [] c = "res_name" -> [i \in 1..Len(model) |-> model[i].resn]
                 [] c = "hetero" -> [i \in 1..Len(model) |-> model[i].hetatm]
                 [] c = "atom_name" -> [i \in 1..Len(model) |-> model[i].name]
                 [] c = "element" -> [i \in 1..Len(model) |-> model[i].symbol]
                 [] c = "b_factor" -> [i \in 1..Len(model) |-> model[i].b]
                 [] c = "occupancy" -> [i \in 1..Len(model) |-> model[i].q]
                 [] c = "charge" -> [i \in 1..Len(model) |-> model[i].formal_charge]
                 [] c = "altloc_id" -> [i \in 1..Len(model) |-> model[i].alt]],
     coord |-> <<[i \in 1..Len(model) |-> model[i].coord]>>]

\* struc.from_template(template, coord)
from_template(template, coord) == [kind |-> "stack", ann |-> template.ann, coord |-> coord]

\* structure[..., mask]: the atoms at the True positions, in order.
RECURSIVE TruePositions(_, _)
TruePositions(mask, i) ==
    IF i > Len(mask) THEN <<>>
    ELSE (IF mask[i] THEN <<i>> ELSE <<>>) \o TruePositions(mask, i + 1)

Filter(structure, mask) ==
    LET keep == TruePositions(mask, 1) IN
    [kind |-> structure.kind,
     ann |-> [c \in DOMAIN structure.ann |-> [k \in 1..Len(keep) |-> structure.ann[c][keep[k]]]],
     coord |-> [s \in 1..Len(structure.coord) |-> [k \in 1..Len(keep) |-> structure.coord[s][keep[k]]]]]

del_annotation(structure, col) ==
    [kind |-> structure.kind,
     ann |-> [c \in (DOMAIN structure.ann) \ {col} |-> structure.ann[c]],
     coord |-> structure.coord]

SameResidue(structure, i, j) ==
    /\ structure.ann["chain_id"][i] = structure.ann["chain_id"][j]
    /\ structure.ann["res_id"][i] = structure.ann["res_id"][j]
    /\ structure.ann["ins_code"][i] = structure.ann["ins_code"][j]

\* struc.filter_highest_occupancy_altloc: per residue, the atoms with the
\* maximum occupancy.
filter_highest_occupancy_altloc(structure) ==
    [i \in 1..array_length(structure) |->
       \A j \in 1..array_length(structure) :
          SameResidue(structure, i, j) => structure.ann["occupancy"][j] <= structure.ann["occupancy"][i]]

(***************************************************************************)
(* Engine commands on objects                                              *)
(***************************************************************************)
Topology(a) ==
    [name |-> a.name, b |-> a.b, symbol |-> a.symbol, resn |-> a.resn,
     ins_code |-> a.ins_code, resi_number |-> a.resi_number, chain |-> a.chain,
     hetatm |-> a.hetatm, q |-> a.q, formal_charge |-> a.formal_charge, alt |-> a.alt]

WithCoord(a, c) ==
    [name |-> a.name, coord |-> c, b |-> a.b, symbol |-> a.symbol,
     resn |-> a.resn, ins_code |-> a.ins_code, resi_number |-> a.resi_number, chain |-> a.chain,
     hetatm |-> a.hetatm, q |-> a.q, formal_charge |-> a.formal_charge, alt |-> a.alt]

ModelCoord(model) == [i \in 1..Len(model) |-> model[i].coord]

\* The records of model beyond the first n.
Beyond(model, n) ==
    [k \in 1..(IF Len(model) > n THEN Len(model) - n ELSE 0) |-> Topology(model[n + k])]

\* cmd.load_model(model, name): a new object with one state; for a name
\* already in the session the model is appended to that object as a new
\* state, atoms matched by position and further atoms added to the object.
load_model(objs, model, name) ==
    IF name \notin DOMAIN objs
    THEN (name :> [atoms |-> [i \in 1..Len(model) |-> Topology(model[i])],
                   states |-> <<ModelCoord(model)>>]) @@ objs
    ELSE [objs EXCEPT ![name] =
            [atoms |-> objs[name].atoms \o Beyond(model, Len(objs[name].atoms)),
             states |-> Append(objs[name].states, ModelCoord(model))]]

\* cmd.load_coordset(coord, name): appends a state to the object.
load_coordset(objs, coord, name) ==
    [objs EXCEPT ![name] = [atoms |-> objs[name].atoms, states |-> Append(objs[name].states, coord)]]

\* cmd.get_coordset(name, state)
get_coordset(objs, name, state) == objs[name].states[state]

\* cmd.get_model(name, state): the records of the atoms of that state,
\* none for a state the object does not have.
get_model(objs, name, state) ==
    IF state \in 1..Len(objs[name].states)
    THEN [i \in 1..Len(objs[name].states[state]) |->
            WithCoord(objs[name].atoms[i], objs[name].states[state][i])]
    ELSE <<>>

(***************************************************************************)
(* PyMOLObject                                                             *)
(***************************************************************************)
\* The engine's error for a command on a name that is not in the session.
EngineError == "CmdException"

\* __init__(name, pymol_instance, delete): the handle, or the exception.
__init__(name, del, objs) ==
    IF name \notin get_object_list(objs)
    THEN [self |-> Handle(name, 0, del), res |-> _check_existence(Handle(name, 0, del), objs)]
    ELSE [self |-> Handle(name, count_atoms(objs, <<TModel(name)>>), del),
          res |-> Res("ok", <<>>, <<ExistenceCall, CountCall(name)>>)]

ObjectName(k) == "ammolite_obj_" \o ToString(k)

\* atoms.coord[1:], with the first coordinate set kept as well.
TrailingCoord_all(atoms) == atoms.coord

\* atoms.coord[1:]: the coordinate sets of the states after the first.
TrailingCoord(atoms) == SubSeq(atoms.coord, 2, Len(atoms.coord))

RECURSIVE LoadCoordsets(_, _, _, _)
\* for coord in ...: cmd.load_coordset(coord, name)
LoadCoordsets(objs, coords, k, name) ==
    IF k > Len(coords) THEN objs
    ELSE LoadCoordsets(load_coordset(objs, coords[k], name), coords, k + 1, name)

LoadCoordsetCalls(atoms, name) ==
    [k \in 1..Len(TrailingCoord(atoms)) |-> Call("load_coordset", name, <<>>, 0)]

\* The engine calls that load atoms.
LoadCalls(atoms, name) ==
    IF atoms.kind = "array" \/ (atoms.kind = "stack" /\ stack_depth(atoms) = 1)
    THEN <<Call("load_model", name, <<>>, 0)>>
    ELSE <<Call("load_model", name, <<>>, 0)>> \o LoadCoordsetCalls(atoms, name)

\* The session after from_structure() has loaded atoms as name.
Loaded(atoms, name, objs) ==
    IF atoms.kind = "array" \/ (atoms.kind = "stack" /\ stack_depth(atoms) = 1)
    THEN load_model(objs, convert_to_chempy_model(atoms), name)
    ELSE LoadCoordsets(load_model(objs, convert_to_chempy_model(FirstModel(atoms)), name),
                       TrailingCoord(atoms), 1, name)

\* return PyMOLObject(name, pymol_instance, delete), h being its outcome.
Returned(atoms, name, objs1, counter1, h) ==
    [objs |-> objs1, self |-> h.self, counter |-> counter1,
     res |-> Res(h.res.result, <<>>, LoadCalls(atoms, name) \o h.res.calls)]

FromNamed(atoms, name, del, objs1, counter1) ==
    Returned(atoms, name, objs1, counter1, __init__(name, del, objs1))

\* from_structure() creating the object before it looks at the type of atoms.
FromResolved_loadfirst(atoms, name, del, objs, counter1) ==
    IF atoms.kind \in {"array", "stack"}
    THEN FromNamed(atoms, name, del, Loaded(atoms, name, objs), counter1)
    ELSE [objs |-> load_model(objs, <<>>, name), self |-> Handle(name, 0, del), counter |-> counter1,
          res |-> Res("TypeError", <<>>, <<Call("load_model", name, <<>>, 0)>>)]

\* from_structure() once the name and the counter are settled.
FromResolved(atoms, name, del, objs, counter1) ==
    IF atoms.kind \in {"array", "stack"}
    THEN FromNamed(atoms, name, del, Loaded(atoms, name, objs), counter1)
    ELSE [objs |-> objs, self |-> Handle(name, 0, del), counter |-> counter1,
          res |-> Res("TypeError", <<>>, <<>>)]

\* from_structure(atoms, name, delete): the session afterwards, the counter,
\* and the handle or the exception.
from_structure(atoms, name0, del, objs, counter) ==
    IF name0 = NoName
    THEN FromResolved(atoms, ObjectName(counter), del, objs, counter + 1)
    ELSE FromResolved(atoms, name0, del, objs, counter)

\* The altloc filter taking every other value of altloc for "all".
AltlocFilter_lenient(structure, altloc, calls) ==
    IF altloc = "occupancy"
    THEN ResV("ok", del_annotation(Filter(structure, filter_highest_occupancy_altloc(structure)), "altloc_id"), calls)
    ELSE IF altloc = "first"
    THEN ResV("NameError", NoStructure, calls)
    ELSE ResV("ok", structure, calls)

\* The altloc filter at the end of to_structure().
AltlocFilter(structure, altloc, calls) ==
    IF altloc = "occupancy"
    THEN ResV("ok", del_annotation(Filter(structure, filter_highest_occupancy_altloc(structure)), "altloc_id"), calls)
    ELSE IF altloc = "first"
    THEN ResV("NameError", NoStructure, calls)
    ELSE IF altloc = "all"
    THEN ResV("ok", structure, calls)
    ELSE ResV("ValueError", NoStructure, calls)

\* The state after the one asked for.
ModelState_next(state) == state + 1

\* The state given to get_model in single-state mode.
ModelState(state) == state

RECURSIVE StateLoop_unchecked(_, _, _, _, _)
\* The loop over the states without the comparison of the lengths.
StateLoop_unchecked(self, objs, i, n, coord) ==
    IF i >= n THEN [ok |-> TRUE, coord |-> coord, fetched |-> i]
    ELSE StateLoop_unchecked(self, objs, i + 1, n, Append(coord, get_coordset(objs, self.name, i + 1)))

RECURSIVE StateLoop(_, _, _, _, _)
\* for i in range(count_states): get_coordset(state=i+1), length check, append
StateLoop(self, objs, i, n, coord) ==
    IF i >= n THEN [ok |-> TRUE, coord |-> coord, fetched |-> i]
    ELSE IF Len(coord) > 0 /\ Len(get_coordset(objs, self.name, i + 1)) # Len(coord[1])
    THEN [ok |-> FALSE, coord |-> coord, fetched |-> i + 1]
    ELSE StateLoop(self, objs, i + 1, n, Append(coord, get_coordset(objs, self.name, i + 1)))

AllStatesCalls(self, fetched) ==
    <<Call("get_model", self.name, <<>>, 1), Call("count_states", self.name, <<>>, 0)>>
      \o [k \in 1..fetched |-> Call("get_coordset", self.name, <<>>, k)]

\* np.stack(coord) and struc.from_template(template, coord), loop being the
\* outcome of the loop over the states.
Stacked(self, template, loop, altloc) ==
    IF ~loop.ok \/ Len(loop.coord) = 0
    THEN ResV("ValueError", NoStructure, AllStatesCalls(self, loop.fetched))
    ELSE AltlocFilter(from_template(template, loop.coord), altloc, AllStatesCalls(self, loop.fetched))

\* to_structure() on an object that is in the session.
Converted(self, state, altloc, objs) ==
    IF state = None
    THEN Stacked(self, convert_to_atom_array(get_model(objs, self.name, 1)),
                 StateLoop(self, objs, 0, count_states(objs, self.name), <<>>), altloc)
    ELSE AltlocFilter(convert_to_atom_array(get_model(objs, self.name, ModelState(state))), altloc,
                      <<Call("get_model", self.name, <<>>, ModelState(state))>>)

\* to_structure(state, altloc); it is not wrapped by validate.
to_structure(self, state, altloc, objs) ==
    IF exists(self, objs) THEN Converted(self, state, altloc, objs)
    ELSE ResV(EngineError, NoStructure,
              <<Call("get_model", self.name, <<>>, IF state = None THEN 1 ELSE ModelState(state))>>)

\* __del__ that issues no delete.
__del___noop(self, objs) == [objs |-> objs, calls |-> <<>>]

\* __del__: cmd.delete(self._name), whatever self.delete is.
__del__(self, objs) == [objs |-> delete(objs, self.name), calls |-> <<Call("delete", self.name, <<>>, 0)>>]

(***************************************************************************)
(* Inputs                                                                  *)
(***************************************************************************)
MaxStates == 3
MaxColors == 2

Masks(n) == [1..n -> BOOLEAN]
AllMasks(max) == UNION {Masks(n) : n \in 0..max}

AltName(i) == CASE i % 3 = 1 -> "A" [] i % 3 = 2 -> "B" [] OTHER -> ""

\* A structure of n atoms and depth coordinate sets with the optional
\* columns opt; v varies the values.  Atoms 1 and 2 share residue 1.
MkStructure(kind, n, depth, opt, v) ==
    [kind |-> kind,
     ann |-> [c \in Mandatory \cup opt |->
               CASE c = "chain_id" -> [i \in 1..n |-> "A"]
                 [] c = "res_id" -> [i \in 1..n |-> (i + 1) \div 2]
                 [] c = "ins_code" -> [i \in 1..n |-> ""]
                 [] c = "res_name" -> [i \in 1..n |-> IF (i + 1) \div 2 = 1 THEN "ALA" ELSE "GLY"]
                 [] c = "hetero" -> [i \in 1..n |-> i % 3 = 0]
                 [] c = "atom_name" -> [i \in 1..n |-> "C" \o ToString(i)]
                 [] c = "element" -> [i \in 1..n |-> IF i % 2 = 0 THEN "C" ELSE "N"]
                 [] c = "b_factor" -> [i \in 1..n |-> 10 * i + v]
                 [] c = "occupancy" -> [i \in 1..n |-> (i % 2) + v]
                 [] c = "charge" -> [i \in 1..n |-> i - 2]
                 [] c = "altloc_id" -> [i \in 1..n |-> AltName(i)]],
     coord |-> [s \in 1..depth |-> [i \in 1..n |-> <<i, s, v>>]]]

Arrays(maxn, opts) == {MkStructure("array", n, 1, opt, v) : n \in 1..maxn, opt \in opts, v \in 1..2}
Stacks(maxn, opts) == {MkStructure("stack", n, d, opt, v) : n \in 1..maxn, d \in 1..MaxStates, opt \in opts, v \in 1..2}

\* An object another user of the session loaded (cmd.load), n atoms, one state.
ExtModel(n) == convert_to_chempy_model(MkStructure("array", n, 1, Optional, 1))

EmptySession == [n \in {} |-> 0]

\* An input of from_structure() that is neither an AtomArray nor an
\* AtomArrayStack (a list of coordinates, say).
NotAStructure == [kind |-> "other", ann |-> [c \in {} |-> <<>>], coord |-> <<>>]

(***************************************************************************)
(* The record of the most recent operation                                 *)
(***************************************************************************)
NoHandle == Handle(NoName, 0, FALSE)
\* The further arguments of the wrappers: a name (of a setting, a
\* representation, a distance object), a value, a second selection, a mode,
\* a color; registry is the color registry when the operation began.
NoExtra ==
    [name |-> NoName, sel2 |-> SelNone, value |-> None, mode |-> None, color |-> NoColor, registry |-> {}]

Args(sel, atoms, state, altloc) ==
    [atoms |-> atoms, sel |-> sel, state |-> state, altloc |-> altloc, extra |-> NoExtra]
NoArgs == Args(SelNone, NoStructure, None, "")

Last(op, self, args, pre, res) ==
    [atoms |-> args.atoms, sel |-> args.sel, state |-> args.state, value |-> res.value, self |-> self,
     result |-> res.result, expr |-> res.expr, calls |-> res.calls, altloc |-> args.altloc,
     extra |-> args.extra, op |-> op, pre |-> pre]

Idle == Last("none", NoHandle, NoArgs, EmptySession, Res("ok", <<>>, <<>>))

\* What is left of a handle once it has been garbage collected.
Collected == [NoHandle EXCEPT !.alive = FALSE]

Live(h) == h \in 1..Len(handles) /\ handles[h].alive

(***************************************************************************)
(* Actions: the session's other users                                      *)
(***************************************************************************)
ExtLoad(name, n) ==
    /\ name \notin DOMAIN objects
    /\ objects' = load_model(objects, ExtModel(n), name)
    /\ last' = Idle
    /\ UNCHANGED <<handles, object_counter, color_counter, colors>>

ExtDelete(name) ==
    /\ name \in DOMAIN objects
    /\ objects' = delete(objects, name)
    /\ last' = Idle
    /\ UNCHANGED <<handles, object_counter, color_counter, colors>>

\* The object o with one more atom, in every state that covered all atoms.
Grown(o, k) ==
    [atoms |-> Append(o.atoms, Topology(ExtModel(k)[k])),
     states |-> [s \in 1..Len(o.states) |->
                   IF Len(o.states[s]) = k - 1 THEN Append(o.states[s], <<k, s, 1>>) ELSE o.states[s]]]

\* The object o without its atoms after the k-th.
Shrunk(o, k) ==
    [atoms |-> SubSeq(o.atoms, 1, k),
     states |-> [s \in 1..Len(o.states) |->
                   IF Len(o.states[s]) > k THEN SubSeq(o.states[s], 1, k) ELSE o.states[s]]]

ExtAddAtom(name) ==
    /\ name \in DOMAIN objects
    /\ Len(objects[name].atoms) < MaxLive
    /\ objects' = [objects EXCEPT ![name] = Grown(objects[name], Len(objects[name].atoms) + 1)]
    /\ last' = Idle
    /\ UNCHANGED <<handles, object_counter, color_counter, colors>>

ExtRemoveAtom(name) ==
    /\ name \in DOMAIN objects
    /\ Len(objects[name].atoms) > 0
    /\ objects' = [objects EXCEPT ![name] = Shrunk(objects[name], Len(objects[name].atoms) - 1)]
    /\ last' = Idle
    /\ UNCHANGED <<handles, object_counter, color_counter, colors>>

\* The records another user loads as state s of an object (cmd.load with a
\* state): the first len atoms of the external model, at that state's places.
ExtState(len, s) == [i \in 1..len |-> WithCoord(ExtModel(len)[i], <<i, s, 1>>)]

\* Another user loads len atoms into the object as a further state.
ExtLoadState(name, len) ==
    /\ name \in DOMAIN objects
    /\ Len(objects[name].states) < MaxStates
    /\ objects' = load_model(objects, ExtState(len, Len(objects[name].states) + 1), name)
    /\ last' = Idle
    /\ UNCHANGED <<handles, object_counter, color_counter, colors>>

(***************************************************************************)
(* Actions: the handle's operations                                        *)
(***************************************************************************)
\* The handles with the new one, if its construction succeeded.
WithHandle(hs, self, res) == IF res.result = "ok" THEN Append(hs, self) ELSE hs

Constructed(r) ==
    /\ handles' = WithHandle(handles, r.self, r.res)
    /\ last' = Last("__init__", r.self, NoArgs, objects, r.res)

NewHandle(name, del) ==
    /\ Len(handles) < MaxHandles
    /\ Constructed(__init__(name, del, objects))
    /\ UNCHANGED <<objects, object_counter, color_counter, colors>>

\* The handle with its history.
Traced(self, atoms, objs) == [self EXCEPT !.origin = atoms, !.fresh = self.name \notin DOMAIN objs]

Built(atoms, r) ==
    /\ objects' = r.objs
    /\ object_counter' = r.counter
    /\ handles' = WithHandle(handles, Traced(r.self, atoms, objects), r.res)
    /\ last' = Last("from_structure", Traced(r.self, atoms, objects), Args(SelNone, atoms, None, ""),
                    objects, r.res)

FromStructure(atoms, name0, del) ==
    /\ Len(handles) < MaxHandles
    /\ name0 = NoName => object_counter < MaxCounter
    /\ Built(atoms, from_structure(atoms, name0, del, objects, object_counter))
    /\ UNCHANGED <<color_counter, colors>>

ToStructure(h, state, altloc) ==
    /\ Live(h)
    /\ last' = Last("to_structure", handles[h], Args(SelNone, NoStructure, state, altloc), objects,
                    to_structure(handles[h], state, altloc, objects))
    /\ UNCHANGED <<objects, handles, object_counter, color_counter, colors>>

Where(h, mask) ==
    /\ Live(h)
    /\ last' = Last("where", handles[h], Args(SelMask(mask), NoStructure, None, ""), objects,
                    where(handles[h], mask, objects))
    /\ UNCHANGED <<objects, handles, object_counter, color_counter, colors>>

Show(h, selection) ==
    /\ Live(h)
    /\ last' = Last("show", handles[h], Args(selection, NoStructure, None, ""), objects,
                    show(handles[h], selection, objects))
    /\ UNCHANGED <<objects, handles, object_counter, color_counter, colors>>

Colored(h, col, selection, r) ==
    /\ colors' = r.colors
    /\ color_counter' = r.counter
    /\ last' = Last("color", handles[h],
                    [NoArgs EXCEPT !.sel = selection, !.extra.color = col, !.extra.registry = colors],
                    objects, r.res)

Color(h, col, selection) ==
    /\ Live(h)
    /\ col.kind # "str" => color_counter < MaxColors
    /\ Colored(h, col, selection, color(handles[h], col, selection, objects, colors, color_counter))
    /\ UNCHANGED <<objects, handles, object_counter>>

\* A wrapper method op of handle h is called with args and has the outcome
\* res; the wrappers change nothing of the session themselves.
Invoked(op, h, args, res) ==
    /\ last' = Last(op, handles[h], args, objects, res)
    /\ UNCHANGED <<objects, handles, object_counter, color_counter, colors>>

Center(h, selection, state, orig) ==
    /\ Live(h)
    /\ Invoked("center", h, [NoArgs EXCEPT !.sel = selection, !.state = state, !.extra.value = IF orig THEN 1 ELSE 0],
            center(handles[h], selection, state, orig, objects))

Clip(h, mode, dist, selection, state) ==
    /\ Live(h)
    /\ Invoked("clip", h, [NoArgs EXCEPT !.sel = selection, !.state = state, !.extra.name = mode, !.extra.value = dist],
            clip(handles[h], mode, dist, selection, state, objects))

Distance(h, name, selection1, selection2, mode) ==
    /\ Live(h)
    /\ Invoked("distance", h,
            [NoArgs EXCEPT !.sel = selection1, !.extra.name = name, !.extra.sel2 = selection2, !.extra.mode = mode],
            distance(handles[h], name, selection1, selection2, mode, objects))

Dss(h, selection, state) ==
    /\ Live(h)
    /\ Invoked("dss", h, [NoArgs EXCEPT !.sel = selection, !.state = state], dss(handles[h], selection, state, objects))

Orient(h, selection, state) ==
    /\ Live(h)
    /\ Invoked("orient", h, [NoArgs EXCEPT !.sel = selection, !.state = state],
            orient(handles[h], selection, state, objects))

Origin(h, selection, state) ==
    /\ Live(h)
    /\ Invoked("origin", h, [NoArgs EXCEPT !.sel = selection, !.state = state],
            origin(handles[h], selection, state, objects))

Set(h, name, value, selection, state) ==
    /\ Live(h)
    /\ Invoked("set", h, [NoArgs EXCEPT !.sel = selection, !.state = state, !.extra.name = name, !.extra.value = value],
            set(handles[h], name, value, selection, state, objects))

SetBond(h, value, selection1, selection2, state) ==
    /\ Live(h)
    /\ Invoked("set_bond", h,
            [NoArgs EXCEPT !.sel = selection1, !.state = state, !.extra.value = value, !.extra.sel2 = selection2],
            set_bond(handles[h], value, selection1, selection2, state, objects))

ShowAs(h, representation, selection) ==
    /\ Live(h)
    /\ Invoked("show_as", h, [NoArgs EXCEPT !.sel = selection, !.extra.name = representation],
            show_as(handles[h], representation, selection, objects))

Unset(h, name, selection, state) ==
    /\ Live(h)
    /\ Invoked("unset", h, [NoArgs EXCEPT !.sel = selection, !.state = state, !.extra.name = name],
            unset(handles[h], name, selection, state, objects))

UnsetBond(h, name, selection1, selection2, state) ==
    /\ Live(h)
    /\ Invoked("unset_bond", h,
            [NoArgs EXCEPT !.sel = selection1, !.state = state, !.extra.name = name, !.extra.sel2 = selection2],
            unset_bond(handles[h], name, selection1, selection2, state, objects))

Zoom(h, selection, buffer, state, complete) ==
    /\ Live(h)
    /\ Invoked("zoom", h,
            [NoArgs EXCEPT !.sel = selection, !.state = state, !.extra.value = buffer,
                           !.extra.mode = IF complete THEN 1 ELSE 0],
            zoom(handles[h], selection, buffer, state, complete, objects))

\* The handle is garbage collected: __del__ runs.
Release(h) ==
    /\ Live(h)
    /\ objects' = __del__(handles[h], objects).objs
    /\ last' = Last("__del__", handles[h], NoArgs, objects, Res("ok", <<>>, __del__(handles[h], objects).calls))
    /\ handles' = [handles EXCEPT ![h] = Collected]
    /\ UNCHANGED <<object_counter, color_counter, colors>>

(***************************************************************************)
(* Spec: the life of handles in a session shared with other users          *)
(***************************************************************************)
UserNames == {"X"}
LifeStructures == {MkStructure("array", 1, 1, Optional, 1), MkStructure("stack", 1, 2, Optional, 1)}
LifeSelections == {SelNone, SelStr(<<TAll>>)} \cup {SelMask(m) : m \in AllMasks(MaxLive)}
Altlocs == {"all", "occupancy", "first", "last"}

Init ==
    /\ objects = EmptySession
    /\ handles = <<>>
    /\ object_counter = 0
    /\ color_counter = 0
    /\ colors = {"red", "green"}
    /\ last = Idle

Next ==
    \/ \E name \in UserNames : ExtLoad(name, 1)
    \/ \E name \in DOMAIN objects : ExtDelete(name)
    \/ \E name \in DOMAIN objects : ExtAddAtom(name)
    \/ \E name \in DOMAIN objects : ExtRemoveAtom(name)
    \/ \E name \in UserNames, del \in BOOLEAN : NewHandle(name, del)
    \/ \E atoms \in LifeStructures, del \in BOOLEAN : FromStructure(atoms, NoName, del)
    \/ \E h \in 1..Len(handles), state \in {None, 1}, altloc \in Altlocs : ToStructure(h, state, altloc)
    \/ \E h \in 1..Len(handles), mask \in AllMasks(MaxLive) : Where(h, mask)
    \/ \E h \in 1..Len(handles), selection \in LifeSelections : Show(h, selection)
    \/ \E h \in 1..Len(handles) : Release(h)

Spec == Init /\ [][Next]_vars

TypeOK == Len(handles) <= MaxHandles /\ object_counter <= MaxCounter

(***************************************************************************)
(* SpecWhere: masks of every length up to MaxAtoms + 1 against a valid     *)
(* handle on an object X of 0..MaxAtoms atoms, next to another object Y.   *)
(***************************************************************************)
WhereSession(n) == load_model(load_model(EmptySession, ExtModel(n), "X"), ExtModel(MaxAtoms), "Y")

InitWhere ==
    /\ \E n \in 0..MaxAtoms : objects = WhereSession(n)
    /\ handles = <<__init__("X", TRUE, objects).self>>
    /\ object_counter = 0
    /\ color_counter = 0
    /\ colors = {"red", "green"}
    /\ last = Idle

NextWhere ==
    \/ \E mask \in AllMasks(MaxAtoms + 1) : Where(1, mask)
    \/ \E selection \in {SelNone} \cup {SelMask(m) : m \in AllMasks(MaxAtoms + 1)} : Show(1, selection)

SpecWhere == InitWhere /\ [][NextWhere]_vars

(***************************************************************************)
(* SpecSel: selection strings of up to MaxTokens tokens given to a         *)
(* selection-aware command of a valid handle on X, next to an object Y.    *)
(***************************************************************************)
Alphabet == {TAll, TLP, TRP, TOr}
Strings == UNION {[1..n -> Alphabet] : n \in 0..MaxTokens}

InitSel ==
    /\ objects = load_model(load_model(EmptySession, ExtModel(1), "X"), ExtModel(2), "Y")
    /\ handles = <<__init__("X", TRUE, objects).self>>
    /\ object_counter = 0
    /\ color_counter = 0
    /\ colors = {"red", "green"}
    /\ last = Idle

NextSel == \E toks \in Strings : Show(1, SelStr(toks))

SpecSel == InitSel /\ [][NextSel]_vars

(***************************************************************************)
(* SpecConv: a structure is loaded into an empty session under the name    *)
(* "test", read back in every mode, and the handle released.               *)
(***************************************************************************)
OptionSets == SUBSET Optional
ConvStructures == Arrays(MaxAtoms, OptionSets) \cup Stacks(MaxAtoms, OptionSets)

NextConv ==
    \/ \E atoms \in ConvStructures \cup {NotAStructure} : handles = <<>> /\ FromStructure(atoms, "test", TRUE)
    \/ \E state \in {None} \cup (1..MaxStates), altloc \in Altlocs : ToStructure(1, state, altloc)
    \/ Release(1)

SpecConv == Init /\ [][NextConv]_vars

(***************************************************************************)
(* SpecStates: an object X whose states other users load with any number   *)
(* of atoms, read through a handle made when X had one state.              *)
(***************************************************************************)
InitStates ==
    /\ \E n \in 1..MaxAtoms : objects = load_model(EmptySession, ExtModel(n), "X")
    /\ handles = <<__init__("X", TRUE, objects).self>>
    /\ object_counter = 0
    /\ color_counter = 0
    /\ colors = {"red", "green"}
    /\ last = Idle

NextStates ==
    \/ \E len \in 1..MaxAtoms : ExtLoadState("X", len)
    \/ \E state \in {None} \cup (1..MaxStates), altloc \in Altlocs : ToStructure(1, state, altloc)

SpecStates == InitStates /\ [][NextStates]_vars

(***************************************************************************)
(* SpecColor: color() of a valid handle on X with color names, RGB tuples   *)
(* and selections of every kind.                                           *)
(***************************************************************************)
ColorArgs == {ColStr("red"), ColStr("mauve"), ColRGB(<<1, 0, 0>>)}

NextColor ==
    \E col \in ColorArgs, selection \in {SelNone, SelStr(<<TAll>>)} \cup {SelMask(m) : m \in AllMasks(MaxAtoms + 1)} :
        Color(1, col, selection)

SpecColor == InitWhere /\ [][NextColor]_vars

(***************************************************************************)
(* SpecNames: from_structure() without a name in a session in which other  *)
(* users load and delete objects under names of their own choosing.        *)
(***************************************************************************)
SessionNames == UserNames \cup {ObjectName(k) : k \in 0..(MaxCounter - 1)}

NextNames ==
    \/ \E name \in SessionNames : ExtLoad(name, 1)
    \/ \E name \in DOMAIN objects : ExtDelete(name)
    \/ \E atoms \in LifeStructures \cup {NotAStructure}, del \in BOOLEAN : FromStructure(atoms, NoName, del)
    \/ \E h \in 1..Len(handles), state \in {None, 1} : ToStructure(h, state, "all")
    \/ \E h \in 1..Len(handles) : Release(h)

SpecNames == Init /\ [][NextNames]_vars

(***************************************************************************)
(* SpecCmd: the wrappers with a state or further arguments, called on a    *)
(* valid handle on X with every kind of selection and state argument.      *)
(***************************************************************************)
CmdSelections == {SelNone, SelStr(<<TAll>>), SelMask(<<TRUE>>)}
CmdStates == {None} \cup (0..MaxStates)

NextCmd ==
    \/ \E selection \in CmdSelections, state \in CmdStates, orig \in BOOLEAN : Center(1, selection, state, orig)
    \/ \E selection \in CmdSelections, state \in CmdStates : Clip(1, "near", 1, selection, state)
    \/ \E selection1, selection2 \in CmdSelections, mode \in 0..1 : Distance(1, "d", selection1, selection2, mode)
    \/ \E selection \in CmdSelections, state \in CmdStates : Dss(1, selection, state)
    \/ \E selection \in CmdSelections, state \in CmdStates : Orient(1, selection, state)
    \/ \E selection \in CmdSelections, state \in CmdStates : Origin(1, selection, state)
    \/ \E selection \in CmdSelections, state \in CmdStates : Set(1, "sphere_scale", 1, selection, state)
    \/ \E selection1, selection2 \in CmdSelections, state \in CmdStates : SetBond(1, 1, selection1, selection2, state)
    \/ \E selection \in CmdSelections : ShowAs(1, "sticks", selection)
    \/ \E selection \in CmdSelections, state \in CmdStates : Unset(1, "sphere_scale", selection, state)
    \/ \E selection1, selection2 \in CmdSelections, state \in CmdStates :
          UnsetBond(1, "valence", selection1, selection2, state)
    \/ \E selection \in CmdSelections, state \in CmdStates, complete \in BOOLEAN :
          Zoom(1, selection, 0, state, complete)

SpecCmd == InitWhere /\ [][NextCmd]_vars

(***************************************************************************)
(* SpecShared: several handles made for the same object X, which other     *)
(* users load and delete; the handles are used and released in any order.  *)
(***************************************************************************)
NextShared ==
    \/ \E n \in 1..MaxLive : ExtLoad("X", n)
    \/ \E name \in DOMAIN objects : ExtDelete(name)
    \/ \E del \in BOOLEAN : NewHandle("X", del)
    \/ \E h \in 1..Len(handles), selection \in {SelNone, SelMask(<<TRUE>>)} : Show(h, selection)
    \/ \E h \in 1..Len(handles) : Release(h)

SpecShared == Init /\ [][NextShared]_vars

(***************************************************************************)
(* Claims                                                                  *)
(***************************************************************************)
\* The handle of the last operation was valid when the operation began.
WasValid == validate(last.self, last.pre).result = "ok"

\* The engine's reading of the selection expression the last operation
\* returned or gave to the engine.
Selected == Select(last.expr, last.pre)

\* The reading sel is that of a well-formed selection of exactly the atoms set.
Selects(sel, atoms) == sel.ok /\ sel.set = atoms

TrueAtoms(name, mask) == {<<name, i>> : i \in {j \in 1..Len(mask) : mask[j]}}

AllFalse(mask) == \A i \in 1..Len(mask) : ~mask[i]

\* C1: for every mask whose length is the handle's atom count, where(mask)
\* returns an expression that selects exactly the atoms of the bound object
\* at the True positions and no atom of another object.
C1_WhereSelectsTruePositions ==
    (last.op = "where" /\ WasValid /\ Len(last.sel.mask) = last.self.atom_count)
    => /\ last.result = "ok"
       /\ Selects(Selected, TrueAtoms(last.self.name, last.sel.mask))

\* C2: for an all-False mask of the right length where() returns a
\* well-formed expression that selects no atom, its parenthesized
\* disjunction holding at least one clause.
C2_AllFalseSelectsNothing ==
    (last.op = "where" /\ WasValid /\ Len(last.sel.mask) = last.self.atom_count
       /\ Len(last.sel.mask) >= 1 /\ AllFalse(last.sel.mask))
    => /\ last.result = "ok"
       /\ Len(last.expr) > Len(<<TModel(last.self.name), TAnd, TLP, TRP>>)
       /\ Selects(Selected, {})

\* The exception where() constructs for a mask of the wrong length.
LengthMismatch == "IndexError"

\* C3: a mask whose length differs from the handle's atom count, given to
\* where() or as the selection of a selection-aware command, fails with the
\* length-mismatch error, and no command is issued with a selection from it.
C3_WrongLengthRaisesLengthMismatch ==
    (last.op \in {"where", "show"} /\ last.sel.kind = "mask" /\ WasValid
       /\ Len(last.sel.mask) # last.self.atom_count)
    => /\ last.result = LengthMismatch
       /\ \A k \in 1..Len(last.calls) : last.calls[k].cmd # "show"

HandleOps == {"where", "show", "to_structure"}

ValidationCalls == {"get_object_list", "count_atoms"}

\* C4: once the live atom count of the bound object differs from the count
\* the handle recorded, every handle operation raises ModifiedObjectError
\* before any engine call other than those of the validation.
C4_ModifiedObjectRaises ==
    (last.op \in HandleOps /\ last.self.name \in DOMAIN last.pre
       /\ Len(last.pre[last.self.name].atoms) # last.self.atom_count)
    => /\ last.result = "ModifiedObjectError"
       /\ \A k \in 1..Len(last.calls) : last.calls[k].cmd \in ValidationCalls

\* C5: constructing a handle for a name absent from the session, and any
\* operation of a handle whose object is no longer in the session, raises
\* NonexistentObjectError, never ModifiedObjectError.
C5_AbsentObjectRaisesNonexistent ==
    (last.op \in HandleOps \cup {"__init__"} /\ last.self.name \notin DOMAIN last.pre)
    => last.result = "NonexistentObjectError"

\* C6: releasing a handle removes the bound object from the session if and
\* only if the handle is owning; a handle with delete=False issues no delete
\* command and leaves the object in the session.
C6_ReleaseDeletesIffOwning ==
    last.op = "__del__"
    => /\ (\E k \in 1..Len(last.calls) : last.calls[k].cmd = "delete") <=> last.self.delete
       /\ (~last.self.delete /\ last.self.name \in DOMAIN last.pre) => objects = last.pre
       /\ last.self.delete => last.self.name \notin DOMAIN objects

\* C7: whatever selection string the caller gives, the expression a
\* selection-aware command passes to the engine selects only atoms of the
\* bound object.
C7_StringStaysInObject ==
    (last.op = "show" /\ last.sel.kind = "str" /\ last.result = "ok")
    => Selected.set \subseteq AtomsOf(last.pre, last.self.name)

\* The last operation read back, unmodified, the object that from_structure()
\* made of a structure of the given kind under a name new to the session.
ReadBack(kind, state) ==
    /\ last.op = "to_structure"
    /\ last.state = state
    /\ last.altloc = "all"
    /\ last.self.fresh
    /\ last.self.origin.kind = kind
    /\ WasValid

C9_StackRoundTrip ==
    (ReadBack("stack", None) /\ stack_depth(last.self.origin) >= 2)
    => /\ last.result = "ok"
       /\ last.value.kind = "stack"
       /\ stack_depth(last.value) = stack_depth(last.self.origin)
       /\ \A i \in 1..stack_depth(last.value) :
            /\ Len(last.value.coord[i]) = array_length(last.self.origin)
            /\ last.value.coord[i] = last.self.origin.coord[i]

C9_Witness ==
    /\ ReadBack("stack", None)
    /\ stack_depth(last.self.origin) = 3
    /\ last.result = "ok"
    /\ stack_depth(last.value) = 3
    /\ array_length(last.value) >= 2

\* The structure to_structure() returns for altloc="all" from the same state.
Unfiltered == to_structure(last.self, last.state, "all", last.pre)

\* Atom i bears the altloc id met first in its residue (or none at all).
BearsFirstAltloc(structure, i) ==
    \/ structure.ann["altloc_id"][i] = ""
    \/ \A j \in 1..(i - 1) :
         (SameResidue(structure, i, j) /\ structure.ann["altloc_id"][j] # "")
         => structure.ann["altloc_id"][j] = structure.ann["altloc_id"][i]

\* The structure all filtered to the first altloc id of each residue.
FirstAltloc(all) ==
    del_annotation(Filter(all, [i \in 1..array_length(all) |-> BearsFirstAltloc(all, i)]), "altloc_id")

\* The last operation returned the structure that all stands for, filtered.
ReturnedFirstAltloc(all) ==
    all.result = "ok"
    => /\ last.result = "ok"
       /\ "altloc_id" \notin DOMAIN last.value.ann
       /\ last.value = FirstAltloc(all.value)

\* C10: to_structure(altloc="first") completes and returns the structure
\* with, per residue, only the atoms of the first altloc id met, and without
\* the altloc_id column.
C10_AltlocFirstFilters ==
    (last.op = "to_structure" /\ last.altloc = "first" /\ WasValid) => ReturnedFirstAltloc(Unfiltered)

\* Every state of the object o has as many coordinates as its first state.
StatesAgree(o) == \A s \in 1..Len(o.states) : Len(o.states[s]) = Len(o.states[1])

\* The last operation was to_structure() without a state on an object in the session.
ReadAllStates == last.op = "to_structure" /\ last.state = None /\ last.self.name \in DOMAIN last.pre

\* C11: to_structure() without a state raises ValueError and returns no
\* structure when some state of the object has a number of coordinates
\* different from the first state's; when all states agree the result is a
\* stack with one coordinate set per state, and for altloc="all" these are
\* the coordinate sets of the states 1..count_states in that order.
C11_MultiStateLengthCheck ==
    ReadAllStates
    => /\ ~StatesAgree(last.pre[last.self.name])
            => (last.result = "ValueError" /\ last.value = NoStructure)
       /\ (StatesAgree(last.pre[last.self.name]) /\ last.altloc \in {"all", "occupancy"})
            => /\ last.result = "ok"
               /\ last.value.kind = "stack"
               /\ stack_depth(last.value) = count_states(last.pre, last.self.name)
       /\ (StatesAgree(last.pre[last.self.name]) /\ last.altloc = "all")
            => last.value.coord = last.pre[last.self.name].states

C11_Witness ==
    /\ ReadAllStates
    /\ count_states(last.pre, last.self.name) = 3
    /\ Len(last.pre[last.self.name].states[2]) = Len(last.pre[last.self.name].states[1])
    /\ Len(last.pre[last.self.name].states[3]) # Len(last.pre[last.self.name].states[1])
    /\ last.result = "ValueError"
    /\ last.value = NoStructure

\* The values of altloc that to_structure() knows.
KnownAltlocs == {"first", "occupancy", "all"}

\* C12: to_structure() of an object in the session with an altloc other
\* than "first", "occupancy" and "all" raises ValueError and returns no
\* structure, with a state and without one.
C12_UnknownAltlocRaises ==
    (last.op = "to_structure" /\ last.altloc \notin KnownAltlocs /\ last.self.name \in DOMAIN last.pre)
    => (last.result = "ValueError" /\ last.value = NoStructure)

C12_Witness ==
    /\ ReadAllStates
    /\ last.altloc \notin KnownAltlocs
    /\ StatesAgree(last.pre[last.self.name])
    /\ count_states(last.pre, last.self.name) >= 2
    /\ last.result = "ValueError"

\* C13: from_structure() of an input that is neither an array nor a stack
\* raises TypeError, leaves the session as it was, issues no load command
\* and yields no handle.
C13_OtherInputRaisesTypeError ==
    (last.op = "from_structure" /\ last.atoms.kind \notin {"array", "stack"})
    => /\ last.result = "TypeError"
       /\ objects = last.pre
       /\ \A k \in 1..Len(last.calls) : last.calls[k].cmd \notin {"load_model", "load_coordset"}
       /\ \A h \in 1..Len(handles) : handles[h].origin # last.atoms

C13_Witness ==
    /\ last.op = "from_structure"
    /\ last.atoms = NotAStructure
    /\ last.result = "TypeError"
    /\ handles = <<>>

\* C14: a color() that raises leaves the session and the color registry as
\* they were and has issued neither set_color nor color.
C14_FailedColorChangesNothing ==
    (last.op = "color" /\ last.result # "ok")
    => /\ objects = last.pre
       /\ colors = last.extra.registry
       /\ \A k \in 1..Len(last.calls) : last.calls[k].cmd \notin {"set_color", "color"}

AllTrue(mask) == \A i \in 1..Len(mask) : mask[i]

\* The last operation was given the all-True mask of the length N >= 1 of
\* the bound object, by a valid handle.
GivenAllTrueMask ==
    /\ last.op \in {"where", "show"}
    /\ last.sel.kind = "mask"
    /\ WasValid
    /\ Len(last.sel.mask) = last.self.atom_count
    /\ Len(last.sel.mask) >= 1
    /\ AllTrue(last.sel.mask)

\* C15: the all-True mask of length N >= 1 is encoded as the single range
\* 1..N within the object, and the engine reads it as the same atoms as the
\* expression made for selection=None.
C15_AllTrueIsWholeObject ==
    GivenAllTrueMask
    => /\ last.result = "ok"
       /\ last.expr = <<TModel(last.self.name), TAnd, TLP, TIndex(1, Len(last.sel.mask)), TRP>>
       /\ Selected.ok
       /\ Selected.set = Select(_into_selection(last.self, SelNone, last.pre).expr, last.pre).set

C15_Witness ==
    /\ GivenAllTrueMask
    /\ last.op = "show"
    /\ Len(last.sel.mask) = MaxAtoms
    /\ last.result = "ok"
    /\ Cardinality(Selected.set) = MaxAtoms

\* The range clauses of the expression the last operation returned, in order.
EmittedRanges == SelectSeq(last.expr, LAMBDA t : t.t = "index")

StrictlyIncreasing(seq) == \A k \in 1..(Len(seq) - 1) : seq[k] < seq[k + 1]

\* The positions lo..hi (1-based) are a maximal run of True values of mask.
IsMaximalRun(mask, lo, hi) ==
    /\ 1 <= lo /\ lo <= hi /\ hi <= Len(mask)
    /\ \A i \in lo..hi : mask[i]
    /\ lo = 1 \/ ~mask[lo - 1]
    /\ hi = Len(mask) \/ ~mask[hi + 1]

\* The positions at which a maximal run of True values of mask starts.
RunStarts(mask) == {i \in 1..Len(mask) : mask[i] /\ (i = 1 \/ ~mask[i - 1])}

\* The ranges are the maximal True runs of mask, in increasing order,
\* disjoint and never adjacent.
RangesAreRuns(ranges, mask) ==
    /\ \A k \in 1..Len(ranges) : IsMaximalRun(mask, ranges[k].lo, ranges[k].hi)
    /\ \A k \in 1..(Len(ranges) - 1) : ranges[k].hi + 1 < ranges[k + 1].lo
    /\ Len(ranges) = Cardinality(RunStarts(mask))

\* C18: for every mask of the length N >= 1 of a valid handle's object the
\* boundary list of where() has even length and is strictly increasing, and
\* the ranges start+1..stop emitted from its consecutive pairs are exactly
\* the maximal runs of True values: disjoint, increasing, never adjacent,
\* and as many as the mask has runs.
C18_BoundariesAreMaximalRuns ==
    (last.op = "where" /\ WasValid /\ Len(last.sel.mask) = last.self.atom_count /\ Len(last.sel.mask) >= 1)
    => /\ last.result = "ok"
       /\ Len(Boundaries(last.sel.mask)) % 2 = 0
       /\ StrictlyIncreasing(Boundaries(last.sel.mask))
       /\ Len(EmittedRanges) = Len(Boundaries(last.sel.mask)) \div 2
       /\ RangesAreRuns(EmittedRanges, last.sel.mask)

C18_Witness ==
    /\ last.op = "where"
    /\ WasValid
    /\ last.sel.mask = <<TRUE, FALSE, TRUE>>
    /\ last.result = "ok"
    /\ EmittedRanges = <<TIndex(1, 1), TIndex(3, 3)>>

\* The last operation was a from_structure() that generated the name.
GeneratedName == last.op = "from_structure" /\ last.self.name = ObjectName(object_counter - 1)

\* C16: a name from_structure() generates is the name of no object that is
\* in the session when it is called.
C16_GeneratedNameIsNew == GeneratedName => last.self.name \notin DOMAIN last.pre

\* The wrappers that take a state parameter.
StateOps == {"center", "clip", "dss", "orient", "origin", "set", "set_bond", "unset", "unset_bond", "zoom"}

\* The engine calls of the last operation other than those of the validation.
EngineCalls == SelectSeq(last.calls, LAMBDA c : c.cmd \notin ValidationCalls)

\* The last operation was called on a valid handle with selections that
\* are None or strings.
PlainCall == WasValid /\ last.sel.kind # "mask" /\ last.extra.sel2.kind # "mask"

\* C17: every wrapper with a state parameter gives the engine command of
\* its name the state 0 when state is None and the caller's state otherwise.
C17_StateDefaultsToZero ==
    (last.op \in StateOps /\ PlainCall)
    => /\ last.result = "ok"
       /\ \E k \in 1..Len(EngineCalls) :
            /\ EngineCalls[k].cmd = last.op
            /\ EngineCalls[k].state = (IF last.state = None THEN 0 ELSE last.state)

\* The object-scoped expression of a selection argument of the last operation.
Scoped(selection) == _into_selection(last.self, selection, last.pre).expr

\* The call c forwards the arguments of the last operation.
Forwards(c) ==
    /\ c.cmd = last.op
    /\ c.name = last.extra.name
    /\ c.sel = Scoped(last.sel)
    /\ last.op = "distance" => (c.sel2 = Scoped(last.extra.sel2) /\ c.mode = last.extra.mode)
    /\ last.op = "set_bond"
         => /\ c.sel2 = Scoped(SecondSelection(last.sel, last.extra.sel2))
            /\ c.value = last.extra.value
            /\ c.state = (IF last.state = None THEN 0 ELSE last.state)

\* C19: show_as(), distance() and set_bond() of a valid handle each issue
\* exactly one engine call, of the command of the same name, with the
\* caller's arguments and the object-scoped selections.
C19_WrappersForwardArguments ==
    (last.op \in {"show_as", "distance", "set_bond"} /\ PlainCall)
    => /\ last.result = "ok"
       /\ Len(EngineCalls) = 1
       /\ Forwards(EngineCalls[1])

\* The validated operations of the model.
ValidatedOps == {"where", "show", "color"} \cup StateOps \cup {"show_as", "distance"}

\* After the release of an owning handle its object is not in the session;
\* a validated operation of a handle whose object is not in the session
\* raises NonexistentObjectError, and one that succeeds found an object of
\* the handle's name with the recorded atom count.
SharedObjectGone ==
    /\ (last.op = "__del__" /\ last.self.delete) => last.self.name \notin DOMAIN objects
    /\ (last.op \in ValidatedOps /\ last.self.name \notin DOMAIN last.pre)
         => last.result = "NonexistentObjectError"
    /\ (last.op \in ValidatedOps /\ last.result = "ok")
         => /\ last.self.name \in DOMAIN last.pre
            /\ Len(last.pre[last.self.name].atoms) = last.self.atom_count

\* No step changes the name or the recorded atom count of a handle that is
\* still referenced.
HandleKeepsBinding ==
    \A h \in 1..Len(handles) :
        (handles[h].alive /\ handles'[h].alive)
        => (handles'[h].name = handles[h].name /\ handles'[h].atom_count = handles[h].atom_count)

\* C20: once an owning handle of an object is released the object is gone
\* and every validated operation of another handle of that name raises
\* NonexistentObjectError; no step changes a handle's name or recorded atom
\* count, so such a handle succeeds again only when an object of that name
\* with the recorded atom count is in the session.
C20_SharedObjectReleased == []SharedObjectGone /\ [][HandleKeepsBinding]_vars

C20_Witness ==
    /\ last.op = "__del__"
    /\ last.self.delete
    /\ last.self.name \in DOMAIN last.pre
    /\ last.self.name \notin DOMAIN objects
    /\ \E h \in 1..Len(handles) :
         /\ handles[h].alive
         /\ handles[h].name = last.self.name
         /\ validate(handles[h], objects).result = "NonexistentObjectError"

====
